---- MODULE Spec2Model ----
(***************************************************************************)
(* Model of ProjectSummarizeTree.py: load_ignore_patterns, summarize_file, *)
(* print_tree and the textwrap.fill call that formats each summary.        *)
(*                                                                         *)
(* Strings are sequences of one-character strings.  The recursion of       *)
(* print_tree is an explicit stack of frames, one per active call.         *)
(***************************************************************************)
EXTENDS Integers, Sequences, FiniteSets, TLC

VARIABLES
    pc,               \* position of the program
    ignore_file,      \* load_ignore_patterns: the lines of ignore.txt
    read_pos,         \* load_ignore_patterns: lines consumed by `for line in f`
    patterns,         \* load_ignore_patterns: the local list `patterns`
    read_failed,      \* load_ignore_patterns: the except branch ran
    ignore_patterns,  \* print_tree: the rule set threaded through the calls
    stack,            \* print_tree: one frame per active call, innermost last
    out,              \* everything printed so far, one record per line
    requests,         \* paths for which client.responses.create was called
    listed,           \* what os.listdir returned, per listed directory
    nodes,            \* entries returned by os.listdir so far
    cause,            \* which call let an exception escape, "none" if none
    summary,          \* wrapping: the text handed to textwrap.fill
    lines             \* wrapping: wrapped.split("\n")

vars == <<pc, ignore_file, read_pos, patterns, read_failed, ignore_patterns,
          stack, out, requests, listed, nodes, cause, summary, lines>>

loadVars == <<ignore_file, read_pos, patterns, read_failed>>
walkVars == <<ignore_patterns, stack, requests, listed, nodes, cause>>
wrapVars == <<summary, lines>>

(***************************************************************************)
(* Bounds of the model.                                                    *)
(***************************************************************************)
MaxLines == 2       \* lines in ignore.txt
MaxLineLen == 2     \* characters per line of ignore.txt
MaxNodes == 4       \* directory entries in the walked tree
MaxWords == 2       \* words in a summary handed to textwrap.fill

(***************************************************************************)
(* Strings.                                                                *)
(***************************************************************************)
Min(a, b) == IF a <= b THEN a ELSE b

Rep(c, n) == [i \in 1..n |-> c]

\* Unicode code point of the characters the model uses (Python compares
\* strings by code point).
Ord(c) ==
    CASE c = "\n" -> 10
      [] c = " " -> 32
      [] c = "#" -> 35
      [] c = "*" -> 42
      [] c = "-" -> 45
      [] c = "?" -> 63
      [] c = "[" -> 91
      [] c = "]" -> 93
      [] c = "a" -> 97
      [] c = "b" -> 98
      [] c = "c" -> 99
      [] OTHER -> 1000

\* str.isspace for one character
IsSpace(c) == c \in {" ", "\n"}

RECURSIVE LStrip(_)
LStrip(s) ==
    IF s # <<>> /\ IsSpace(Head(s)) THEN LStrip(Tail(s)) ELSE s

RECURSIVE RStrip(_)
RStrip(s) ==
    IF s # <<>> /\ IsSpace(s[Len(s)]) THEN RStrip(SubSeq(s, 1, Len(s) - 1)) ELSE s

\* str.strip()
Strip(s) == RStrip(LStrip(s))

\* s < t for Python strings
RECURSIVE StrLess(_, _)
StrLess(s, t) ==
    IF t = <<>> THEN FALSE
    ELSE IF s = <<>> THEN TRUE
    ELSE IF Head(s) # Head(t) THEN Ord(Head(s)) < Ord(Head(t))
    ELSE StrLess(Tail(s), Tail(t))

\* sorted(names) for a set of distinct strings
RECURSIVE Sorted(_)
Sorted(S) ==
    IF S = {} THEN <<>>
    ELSE LET m == CHOOSE x \in S : \A y \in S \ {x} : StrLess(x, y)
         IN <<m>> \o Sorted(S \ {m})

(***************************************************************************)
(* fnmatch.fnmatch(name, pat): '*' matches any run of characters, '?' one  *)
(* character, anything else itself; the whole name must match.  normcase   *)
(* is the identity on POSIX.                                               *)
(***************************************************************************)
RECURSIVE fnmatch(_, _)
fnmatch(name, pat) ==
    IF pat = <<>> THEN name = <<>>
    ELSE IF Head(pat) = "*" THEN
        \/ fnmatch(name, Tail(pat))
        \/ name # <<>> /\ fnmatch(Tail(name), pat)
    ELSE IF name = <<>> THEN FALSE
    ELSE IF Head(pat) = "?" THEN fnmatch(Tail(name), Tail(pat))
    ELSE Head(pat) = Head(name) /\ fnmatch(Tail(name), Tail(pat))

\* any(fnmatch.fnmatch(name, pat) for pat in ignore_patterns)
Ignored(name, pats) == \E i \in 1..Len(pats) : fnmatch(name, pats[i])

(***************************************************************************)
(* load_ignore_patterns                                                    *)
(***************************************************************************)
LineChars == {" ", "#", "a", "*"}

StringsUpTo(chars, n) == UNION {[1..k -> chars] : k \in 0..n}

IgnoreLines == StringsUpTo(LineChars, MaxLineLen)

IgnoreFiles == UNION {[1..k -> IgnoreLines] : k \in 0..MaxLines}

\* the body of `for line in f`: strip, skip blanks and comments, append
AppendPattern(pats, line) ==
    LET l == Strip(line)
    IN IF l = <<>> \/ Head(l) = "#" THEN pats ELSE Append(pats, l)

\* the value load_ignore_patterns returns from its except branch
PatternsAfterError(pats) == pats

InitLoad ==
    /\ pc = "load"
    /\ ignore_file \in IgnoreFiles
    /\ read_pos = 0
    /\ patterns = <<>>
    /\ read_failed = FALSE
    /\ ignore_patterns = <<>>
    /\ stack = <<>>
    /\ out = <<>>
    /\ requests = <<>>
    /\ listed = <<>>
    /\ nodes = 0
    /\ cause = "none"
    /\ summary = <<>>
    /\ lines = <<>>

\* os.path.isfile(ignore_file) is false (a file with no lines may also be
\* no file at all): return the empty list
LoadAbsent ==
    /\ pc = "load"
    /\ ignore_file = <<>>
    /\ pc' = "loaded"
    /\ ignore_patterns' = patterns
    /\ UNCHANGED <<ignore_file, read_pos, patterns, read_failed, stack, out,
                   requests, listed, nodes, cause, summary, lines>>

\* open() succeeds
LoadOpen ==
    /\ pc = "load"
    /\ pc' = "reading"
    /\ UNCHANGED <<loadVars, walkVars, wrapVars, out>>

\* one iteration of `for line in f`
LoadLine ==
    /\ pc = "reading"
    /\ read_pos < Len(ignore_file)
    /\ read_pos' = read_pos + 1
    /\ patterns' = AppendPattern(patterns, ignore_file[read_pos + 1])
    /\ UNCHANGED <<pc, ignore_file, read_failed, walkVars, wrapVars, out>>

\* open() or the read of the next line raises: the except branch prints the
\* diagnostic and the function returns `patterns`
LoadError ==
    /\ pc \in {"load", "reading"}
    /\ read_failed' = TRUE
    /\ out' = Append(out, [kind |-> "ignore_error"])
    /\ ignore_patterns' = PatternsAfterError(patterns)
    /\ pc' = "loaded"
    /\ UNCHANGED <<ignore_file, read_pos, patterns, stack, requests, listed,
                   nodes, cause, summary, lines>>

\* end of file: return patterns
LoadEOF ==
    /\ pc = "reading"
    /\ read_pos = Len(ignore_file)
    /\ ignore_patterns' = patterns
    /\ pc' = "loaded"
    /\ UNCHANGED <<loadVars, stack, out, requests, listed, nodes, cause,
                   summary, lines>>

NextLoad == LoadAbsent \/ LoadOpen \/ LoadLine \/ LoadError \/ LoadEOF

SpecLoad == InitLoad /\ [][NextLoad]_vars

(***************************************************************************)
(* textwrap.fill(summary, width=60), with TextWrapper's defaults:          *)
(* replace_whitespace, drop_whitespace, break_long_words and               *)
(* break_on_hyphens are all on, the indents are empty.                     *)
(***************************************************************************)
WrapWidth == 60

IsLetter(c) == c \in {"a", "b", "c"}

\* TextWrapper.word_punct: a word character or one of ! " ' & . , ?
IsWordPunct(c) == IsLetter(c) \/ c \in {"!", "'", "&", ".", ",", "?"}

At(t, i) == IF i >= 1 /\ i <= Len(t) THEN t[i] ELSE "EOS"

\* _munge_whitespace: every whitespace character becomes a space
Munge(t) == [i \in 1..Len(t) |-> IF IsSpace(t[i]) THEN " " ELSE t[i]]

\* the least element of a non-empty set of integers
Least(S) == CHOOSE x \in S : \A y \in S : x <= y

\* the last index of the run starting at p: of whitespace if ws, of hyphens
\* otherwise
RunEnd(t, p, ws) ==
    Least({e \in p..Len(t) :
              \/ e = Len(t)
              \/ IF ws THEN ~IsSpace(t[e + 1]) ELSE t[e + 1] # "-"})

\* a run of two or more hyphens starts at i and a word character follows it
EmDashAt(t, i) ==
    /\ At(t, i) = "-"
    /\ At(t, i + 1) = "-"
    /\ IsLetter(At(t, RunEnd(t, i, FALSE) + 1))

\* wordsep_re, hyphenated word: the hyphen at i has two letters (or letter,
\* hyphen, letter) before it and letter, optional hyphen, letter after it
HyphenBreakAt(t, i) ==
    /\ At(t, i) = "-"
    /\ IsLetter(At(t, i - 1))
    /\ \/ IsLetter(At(t, i - 2))
       \/ At(t, i - 2) = "-" /\ IsLetter(At(t, i - 3))
    /\ IsLetter(At(t, i + 1))
    /\ \/ IsLetter(At(t, i + 2))
       \/ At(t, i + 2) = "-" /\ IsLetter(At(t, i + 3))

\* wordsep_re, third alternative: the shortest run of non-whitespace from p
\* that ends in a breaking hyphen, at the end of the word, or before an
\* em-dash
WordChunkEnd(t, p) ==
    LET q == Least({i \in p..Len(t) :
                       \/ HyphenBreakAt(t, i + 1)
                       \/ i = Len(t)
                       \/ IsSpace(t[i + 1])
                       \/ IsWordPunct(t[i]) /\ EmDashAt(t, i + 1)})
    IN IF HyphenBreakAt(t, q + 1) THEN q + 1 ELSE q

\* the last index of the chunk wordsep_re matches at p
ChunkEnd(t, p) ==
    IF IsSpace(t[p]) THEN RunEnd(t, p, TRUE)
    ELSE IF p > 1 /\ IsWordPunct(t[p - 1]) /\ EmDashAt(t, p) THEN RunEnd(t, p, FALSE)
    ELSE WordChunkEnd(t, p)

\* TextWrapper._split
RECURSIVE SplitChunks(_, _)
SplitChunks(t, p) ==
    IF p > Len(t) THEN <<>>
    ELSE LET e == ChunkEnd(t, p)
         IN <<SubSeq(t, p, e)>> \o SplitChunks(t, e + 1)

\* chunk.strip() == ''
IsBlank(chunk) == \A i \in 1..Len(chunk) : IsSpace(chunk[i])

\* how many leading chunks fit in `room` columns
RECURSIVE Fit(_, _)
Fit(chunks, room) ==
    IF chunks # <<>> /\ Len(Head(chunks)) <= room
    THEN 1 + Fit(Tail(chunks), room - Len(Head(chunks)))
    ELSE 0

RECURSIVE Concat(_)
Concat(ss) == IF ss = <<>> THEN <<>> ELSE Head(ss) \o Concat(Tail(ss))

\* chunk.rfind('-', 0, space_left), as a 1-based index, 0 when absent
RFindHyphen(chunk, i) ==
    LET H == {j \in 1..i : chunk[j] = "-"}
    IN IF H = {} THEN 0 ELSE CHOOSE j \in H : \A k \in H : k <= j

\* a long word that was put on a line whole, the break suppressed
LongWordEndNoBreak(chunk, space_left) == Len(chunk)

\* _handle_long_word: how many characters of the too-long chunk go on the
\* current line
LongWordEnd(chunk, space_left) ==
    LET h == RFindHyphen(chunk, Min(space_left, Len(chunk)))
    IN IF /\ Len(chunk) > space_left
          /\ h > 1
          /\ \E i \in 1..(h - 1) : chunk[i] # "-"
       THEN h ELSE space_left

\* TextWrapper._wrap_chunks: one turn of the outer loop per line
RECURSIVE WrapChunks(_, _, _)
WrapChunks(chunks, width, lns) ==
    IF chunks = <<>> THEN lns
    ELSE
      LET c1 == IF IsBlank(Head(chunks)) /\ lns # <<>> THEN Tail(chunks) ELSE chunks
          k == Fit(c1, width)
          fitted == SubSeq(c1, 1, k)
          cur_len == Len(Concat(fitted))
          rest == SubSeq(c1, k + 1, Len(c1))
          long == rest # <<>> /\ Len(Head(rest)) > width
          end == IF long THEN LongWordEnd(Head(rest), width - cur_len) ELSE 0
          cur == IF long THEN Append(fitted, SubSeq(Head(rest), 1, end)) ELSE fitted
          rest2 == IF long
                   THEN <<SubSeq(Head(rest), end + 1, Len(Head(rest)))>> \o Tail(rest)
                   ELSE rest
          rest3 == IF rest2 # <<>> /\ Head(rest2) = <<>> THEN Tail(rest2) ELSE rest2
          cur2 == IF cur # <<>> /\ IsBlank(cur[Len(cur)])
                  THEN SubSeq(cur, 1, Len(cur) - 1) ELSE cur
      IN WrapChunks(rest3, width, IF cur2 # <<>> THEN Append(lns, Concat(cur2)) ELSE lns)

\* TextWrapper.wrap
Wrap(text, width) == WrapChunks(SplitChunks(Munge(text), 1), width, <<>>)

\* "\n".join(lines)
RECURSIVE JoinNL(_)
JoinNL(lns) ==
    IF lns = <<>> THEN <<>>
    ELSE IF Len(lns) = 1 THEN lns[1]
    ELSE lns[1] \o <<"\n">> \o JoinNL(Tail(lns))

\* str.split("\n") of the text from index p on
RECURSIVE SplitNL(_, _)
SplitNL(s, p) ==
    LET N == {i \in p..Len(s) : s[i] = "\n"}
    IN IF N = {} THEN <<SubSeq(s, p, Len(s))>>
       ELSE <<SubSeq(s, p, Least(N) - 1)>> \o SplitNL(s, Least(N) + 1)

\* textwrap.fill
Fill(text, width) == JoinNL(Wrap(text, width))

\* lines = textwrap.fill(summary, width=60).split("\n")
WrappedLines(text) == SplitNL(Fill(text, WrapWidth), 1)

(***************************************************************************)
(* Summaries handed to the wrapping: words of chosen shapes joined by      *)
(* whitespace.  A shape is the lengths of the word's letter runs, the runs *)
(* joined by single hyphens; word k is written with the k-th letter.       *)
(***************************************************************************)
WordLetters == <<"a", "b", "c">>

WordShapes == {<<1>>, <<30>>, <<59>>, <<60>>, <<61>>, <<125>>,
               <<1, 1>>, <<2, 2>>, <<30, 30>>, <<58, 58>>}

Separators == {<<" ">>, <<" ", " ">>, <<"\n">>}

RECURSIVE WordText(_, _)
WordText(shape, c) ==
    IF Len(shape) = 1 THEN Rep(c, shape[1])
    ELSE Rep(c, shape[1]) \o <<"-">> \o WordText(Tail(shape), c)

RECURSIVE SummaryText(_, _, _)
SummaryText(shapes, seps, k) ==
    IF k > Len(shapes) THEN <<>>
    ELSE (IF k > 1 THEN seps[k - 1] ELSE <<>>)
         \o WordText(shapes[k], WordLetters[k]) \o SummaryText(shapes, seps, k + 1)

WrapInputs ==
    {SummaryText(sh, sp, 1) :
        sh \in UNION {[1..n -> WordShapes] : n \in 1..Min(MaxWords, Len(WordLetters))},
        sp \in [1..(MaxWords - 1) -> Separators]}

InitWrap ==
    /\ pc = "wrap"
    /\ summary \in WrapInputs
    /\ lines = <<>>
    /\ ignore_file = <<>>
    /\ read_pos = 0
    /\ patterns = <<>>
    /\ read_failed = FALSE
    /\ ignore_patterns = <<>>
    /\ stack = <<>>
    /\ out = <<>>
    /\ requests = <<>>
    /\ listed = <<>>
    /\ nodes = 0
    /\ cause = "none"

\* wrapped = textwrap.fill(summary, width=60); lines = wrapped.split("\n")
FillSummary ==
    /\ pc = "wrap"
    /\ lines' = WrappedLines(summary)
    /\ pc' = "wrapped"
    /\ UNCHANGED <<summary, loadVars, walkVars, out>>

NextWrap == FillSummary

SpecWrap == InitWrap /\ [][NextWrap]_vars

(***************************************************************************)
(* summarize_file                                                          *)
(***************************************************************************)
\* Stand-ins, of the same lengths, for the fixed Japanese words of the three
\* diagnostics; like the originals they are word characters to textwrap.
ReadErrorWord == Rep("R", 7)

SummaryErrorWord == Rep("S", 5)

NoAccessWord == Rep("P", 8)

\* lines 46, 59, 70: the bracketed diagnostic, f"[<word>: {e}]"
Diagnostic(word, e) == <<"[">> \o word \o <<":", " ">> \o e \o <<"]">>

\* str(e) of the exception open() or read() raises
ReadErrorTexts == {<<"a">>}

\* str(e) of the exception client.responses.create raises
ApiErrorTexts == {Rep("a", 30) \o <<" ">> \o Rep("b", 30)}

\* response.output_text of the summarizer
Responses ==
    {<<" ", "a", " ", "b", "\n">>,
     Rep("a", 40) \o <<" ">> \o Rep("b", 40) \o <<" ">> \o Rep("c", 40)}

\* what the environment does to one summarize_file call: the read fails
\* with e, or the read succeeds and the request fails with e, or both
\* succeed and the service answers text
Outcomes ==
    {[kind |-> "read_error", text |-> e] : e \in ReadErrorTexts}
    \cup {[kind |-> "api_error", text |-> e] : e \in ApiErrorTexts}
    \cup {[kind |-> "ok", text |-> t] : t \in Responses}

\* summarize_file with the first try/except missing: a read error escapes
summarize_file_unguarded(o) ==
    IF o.kind = "read_error"
    THEN [raised |-> TRUE, summary |-> <<>>, sent |-> 0]
    ELSE IF o.kind = "api_error"
    THEN [raised |-> FALSE, summary |-> Diagnostic(SummaryErrorWord, o.text), sent |-> 1]
    ELSE [raised |-> FALSE, summary |-> Strip(o.text), sent |-> 1]

\* summarize_file that calls the service even when the read failed
summarize_file_always_sends(o) ==
    IF o.kind = "read_error"
    THEN [raised |-> FALSE, summary |-> Diagnostic(ReadErrorWord, o.text), sent |-> 1]
    ELSE IF o.kind = "api_error"
    THEN [raised |-> FALSE, summary |-> Diagnostic(SummaryErrorWord, o.text), sent |-> 1]
    ELSE [raised |-> FALSE, summary |-> Strip(o.text), sent |-> 1]

\* summarize_file(path): the returned summary, the number of calls of
\* client.responses.create, and whether an exception escapes
summarize_file(o) ==
    IF o.kind = "read_error"
    THEN [raised |-> FALSE, summary |-> Diagnostic(ReadErrorWord, o.text), sent |-> 0]
    ELSE IF o.kind = "api_error"
    THEN [raised |-> FALSE, summary |-> Diagnostic(SummaryErrorWord, o.text), sent |-> 1]
    ELSE [raised |-> FALSE, summary |-> Strip(o.text), sent |-> 1]

(***************************************************************************)
(* print_tree                                                              *)
(***************************************************************************)
A == <<"a">>
AB == <<"a", "b">>
B == <<"b">>

\* names a directory entry can have
Names == {A, AB, B}

\* rule sets load_ignore_patterns can return
RuleSets == {<<>>, <<B>>, <<<<"a", "*">>>>, <<<<"?", "b">>, B>>}

\* The box-drawing characters are written in ASCII: "L" for the corner of
\* the last branch, "+" for the tee, "=" for the horizontal bar and "|" for
\* the vertical bar.
LastBranch == <<"L", "=", "=", " ">>

MidBranch == <<"+", "=", "=", " ">>

\* lines 74-80: the entries that survive the ignore patterns
Filter(entries, pats) ==
    IF pats # <<>>
    THEN SelectSeq(entries, LAMBDA n : ~Ignored(n, pats))
    ELSE entries

\* is_last compared with the length, not the last index
is_last_off_by_one(index, entries) == index = Len(entries)

\* is_last = index == len(entries) - 1
is_last(index, entries) == index = Len(entries) - 1

\* line 85: the branch glyph
Branch(last) == IF last THEN LastBranch ELSE MidBranch

\* the new segment put in front of the inherited prefix
new_prefix_prepended(prefix, last) ==
    (IF last THEN Rep(" ", 4) ELSE <<"|", " ", " ", " ">>) \o prefix

\* line 89: new_prefix = prefix + (four spaces if is_last, else bar and three spaces)
new_prefix(prefix, last) ==
    prefix \o (IF last THEN Rep(" ", 4) ELSE <<"|", " ", " ", " ">>)

\* the join that drops the directory
JoinNameOnly(path, name) == <<name>>

\* full = os.path.join(path, name)
Join(path, name) == Append(path, name)

\* the continuation indent without the two extra spaces
ContinuationIndentUnderName(prefix, branch) == prefix \o Rep(" ", Len(branch))

\* f"{prefix}{' ' * len(branch)}  "
ContinuationIndent(prefix, branch) == prefix \o Rep(" ", Len(branch)) \o <<" ", " ">>

\* the lines printed for a file: the name with the first summary line, then
\* the remaining summary lines
FileLines(path, prefix, branch, name, o, lns) ==
    <<[kind |-> "file", path |-> path, prefix |-> prefix, branch |-> branch,
       name |-> name, outcome |-> o.kind, body |-> lns[1],
       text |-> prefix \o branch \o name \o <<" ", "-", " ">> \o lns[1]]>>
    \o [i \in 1..(Len(lns) - 1) |->
          [kind |-> "cont", path |-> path, prefix |-> prefix, branch |-> branch,
           name |-> name, outcome |-> o.kind, body |-> lns[i + 1],
           text |-> ContinuationIndent(prefix, branch) \o lns[i + 1]]]

\* print(f"{prefix}{branch}{name}/")
DirLine(path, prefix, branch, name) ==
    [kind |-> "dir", path |-> path, prefix |-> prefix, branch |-> branch,
     name |-> name, outcome |-> "ok", body |-> <<>>,
     text |-> prefix \o branch \o name \o <<"/">>]

\* the path as os.path.join writes it
RECURSIVE PathText(_)
PathText(path) ==
    IF path = <<>> THEN <<".">> ELSE PathText(SubSeq(path, 1, Len(path) - 1)) \o <<"/">> \o path[Len(path)]

\* line 70: print(f"{prefix}[<no access>: {path}]")
DeniedLine(path, prefix) ==
    [kind |-> "denied", path |-> path, prefix |-> prefix, branch |-> <<>>,
     name |-> <<>>, outcome |-> "denied", body |-> <<>>,
     text |-> prefix \o Diagnostic(NoAccessWord, PathText(path))]

\* the locals of one call print_tree(path, prefix, ignore_patterns);
\* entered is false until os.listdir has been called
Frame(path, prefix, pats) ==
    [path |-> path, prefix |-> prefix, ignore_patterns |-> pats,
     entries |-> <<>>, index |-> 0, entered |-> FALSE]

Top == stack[Len(stack)]

SetTop(stk, f) == [stk EXCEPT ![Len(stk)] = f]

\* the patterns dropped in the recursive call
RecursePatternsNone(pats) == <<>>

\* print_tree(full, new_prefix, ignore_patterns): the rule set handed down
RecursePatterns(pats) == pats

\* a return that unwinds every active call
ReturnAll(stk) == <<>>

\* return from the innermost call; the caller's loop moves to its next entry
Return(stk) ==
    LET rest == SubSeq(stk, 1, Len(stk) - 1)
    IN IF rest = <<>> THEN rest
       ELSE SetTop(rest, [rest[Len(rest)] EXCEPT !.index = @ + 1])

\* line 71: the return of the except PermissionError branch
DeniedReturn(stk) == Return(stk)

InitWalk ==
    /\ pc = "walk"
    /\ ignore_patterns \in RuleSets
    /\ stack = <<Frame(<<>>, <<>>, ignore_patterns)>>
    /\ out = <<>>
    /\ requests = <<>>
    /\ listed = <<>>
    /\ nodes = 0
    /\ cause = "none"
    /\ ignore_file = <<>>
    /\ read_pos = 0
    /\ patterns = <<>>
    /\ read_failed = FALSE
    /\ summary = <<>>
    /\ lines = <<>>

After(stk) == IF stk = <<>> THEN "done" ELSE "walk"

\* lines 68, 74-80: os.listdir succeeds; sort and filter
ListDir ==
    /\ pc = "walk"
    /\ ~Top.entered
    /\ \E S \in SUBSET Names :
        /\ nodes + Cardinality(S) <= MaxNodes
        /\ nodes' = nodes + Cardinality(S)
        /\ listed' = Append(listed, [path |-> Top.path, result |-> "ok", names |-> Sorted(S)])
        /\ stack' = SetTop(stack, [Top EXCEPT
                        !.entered = TRUE,
                        !.entries = Filter(Sorted(S), Top.ignore_patterns)])
    /\ UNCHANGED <<pc, out, requests, cause, ignore_patterns, loadVars, wrapVars>>

\* lines 69-71: os.listdir raises PermissionError
ListDirDenied ==
    /\ pc = "walk"
    /\ ~Top.entered
    /\ listed' = Append(listed, [path |-> Top.path, result |-> "denied", names |-> <<>>])
    /\ out' = Append(out, DeniedLine(Top.path, Top.prefix))
    /\ stack' = DeniedReturn(stack)
    /\ pc' = After(stack')
    /\ UNCHANGED <<requests, nodes, cause, ignore_patterns, loadVars, wrapVars>>

\* line 68: os.listdir raises an OSError that is no PermissionError (the
\* directory vanished, an I/O error); no handler is active, in print_tree or
\* in main
ListDirRaises ==
    /\ pc = "walk"
    /\ ~Top.entered
    /\ listed' = Append(listed, [path |-> Top.path, result |-> "error", names |-> <<>>])
    /\ cause' = "listdir"
    /\ stack' = <<>>
    /\ pc' = "raised"
    /\ UNCHANGED <<out, requests, nodes, ignore_patterns, loadVars, wrapVars>>

\* lines 83-90: the entry is a directory
VisitDir ==
    /\ pc = "walk"
    /\ Top.entered
    /\ Top.index < Len(Top.entries)
    /\ LET name == Top.entries[Top.index + 1]
           full == Join(Top.path, name)
           last == is_last(Top.index, Top.entries)
       IN /\ out' = Append(out, DirLine(full, Top.prefix, Branch(last), name))
          /\ stack' = Append(stack, Frame(full, new_prefix(Top.prefix, last),
                                          RecursePatterns(Top.ignore_patterns)))
    /\ UNCHANGED <<pc, requests, listed, nodes, cause, ignore_patterns, loadVars, wrapVars>>

\* lines 92-94 for each thing the environment can do to the call
Summarized ==
    [o \in Outcomes |->
        LET r == summarize_file(o)
        IN [raised |-> r.raised, sent |-> r.sent,
            lines |-> IF r.raised THEN <<>> ELSE WrappedLines(r.summary)]]

\* lines 83-85, 91-97: the entry is a file
VisitFile ==
    /\ pc = "walk"
    /\ Top.entered
    /\ Top.index < Len(Top.entries)
    /\ \E o \in Outcomes :
        LET name == Top.entries[Top.index + 1]
            full == Join(Top.path, name)
            last == is_last(Top.index, Top.entries)
            r == Summarized[o]
        IN /\ requests' = requests \o Rep(full, r.sent)
           /\ IF r.raised
              THEN /\ cause' = "summarize"
                   /\ stack' = <<>>
                   /\ pc' = "raised"
                   /\ out' = out
              ELSE /\ out' = out \o FileLines(full, Top.prefix, Branch(last), name, o,
                                              r.lines)
                   /\ stack' = SetTop(stack, [Top EXCEPT !.index = @ + 1])
                   /\ UNCHANGED <<pc, cause>>
    /\ UNCHANGED <<listed, nodes, ignore_patterns, loadVars, wrapVars>>

\* the for loop of lines 82-97 is exhausted: print_tree returns
LoopEnd ==
    /\ pc = "walk"
    /\ Top.entered
    /\ Top.index = Len(Top.entries)
    /\ stack' = Return(stack)
    /\ pc' = After(stack')
    /\ UNCHANGED <<out, requests, listed, nodes, cause, ignore_patterns, loadVars, wrapVars>>

Next == ListDir \/ ListDirDenied \/ ListDirRaises \/ VisitDir \/ VisitFile \/ LoopEnd

Spec == InitWalk /\ [][Next]_vars

(***************************************************************************)
(* What the claims are stated over.                                        *)
(***************************************************************************)
IsPrefixOf(p, q) == Len(p) <= Len(q) /\ SubSeq(q, 1, Len(p)) = p

Parent(p) == SubSeq(p, 1, Len(p) - 1)

\* the lines of the entries (not the continuation or diagnostic lines)
IsEntry(r) == r.kind \in {"dir", "file"}

\* the entry lines printed for the children of directory p, in print order
PrintedChildren(p) ==
    SelectSeq(out, LAMBDA r : IsEntry(r) /\ r.path # <<>> /\ Parent(r.path) = p)

\* the names of a listing that match no pattern of the rule set
Survivors(names) == SelectSeq(names, LAMBDA n : ~Ignored(n, ignore_patterns))

OkListings == {i \in 1..Len(listed) : listed[i].result = "ok"}

DeniedListings == {i \in 1..Len(listed) : listed[i].result = "denied"}

\* the position in a directory walk: a directory before everything in it,
\* siblings by name
RECURSIVE PathLess(_, _)
PathLess(p, q) ==
    IF q = <<>> THEN FALSE
    ELSE IF p = <<>> THEN TRUE
    ELSE IF Head(p) # Head(q) THEN StrLess(Head(p), Head(q))
    ELSE PathLess(Tail(p), Tail(q))

\* every surviving entry of every listed directory has its line, in order
\* (all of them once the walk is over, the first ones while it runs)
ChildrenFollowListing ==
    \A i \in OkListings :
        LET kids == PrintedChildren(listed[i].path)
            surv == Survivors(listed[i].names)
        IN /\ Len(kids) <= Len(surv)
           /\ \A j \in 1..Len(kids) : kids[j].name = surv[j]
           /\ pc = "done" => Len(kids) = Len(surv)

\* C1: no printed line, no summarizer request and no listed directory has a
\* path with a component (at any depth) that matches an ignore pattern.
C1_IgnoredNeverVisited ==
    /\ \A i \in 1..Len(out) : \A k \in 1..Len(out[i].path) :
           ~Ignored(out[i].path[k], ignore_patterns)
    /\ \A i \in 1..Len(requests) : \A k \in 1..Len(requests[i]) :
           ~Ignored(requests[i][k], ignore_patterns)
    /\ \A i \in 1..Len(listed) : \A k \in 1..Len(listed[i].path) :
           ~Ignored(listed[i].path[k], ignore_patterns)

\* a finished walk in which a directory below the root held an ignored name
C1_Witness ==
    /\ pc = "done"
    /\ \E i \in OkListings :
        /\ listed[i].path # <<>>
        /\ \E k \in 1..Len(listed[i].names) : Ignored(listed[i].names[k], ignore_patterns)
        /\ Survivors(listed[i].names) # <<>>

\* C2: the entry lines of each level are in strictly ascending name order;
\* the entry that is the last survivor of the ignore filter at its level,
\* and no other, carries the terminal glyph, right after the prefix; once
\* the walk is over every level with a surviving entry has exactly one.
C2_SortedAndOneLast ==
    \A i \in OkListings :
        LET kids == PrintedChildren(listed[i].path)
            surv == Survivors(listed[i].names)
        IN /\ \A j, k \in 1..Len(kids) : j < k => StrLess(kids[j].name, kids[k].name)
           /\ \A j \in 1..Len(kids) :
                /\ j <= Len(surv) /\ kids[j].name = surv[j]
                /\ kids[j].branch = IF j = Len(surv) THEN LastBranch ELSE MidBranch
                /\ SubSeq(kids[j].text, Len(kids[j].prefix) + 1, Len(kids[j].prefix) + 4)
                       = kids[j].branch
           /\ (pc = "done" /\ surv # <<>>) =>
                Cardinality({j \in 1..Len(kids) : kids[j].branch = LastBranch}) = 1

\* a finished walk with a level whose last listed name was ignored and that
\* still printed two entries
C2_Witness ==
    /\ pc = "done"
    /\ \E i \in OkListings :
        /\ listed[i].names # <<>>
        /\ Ignored(listed[i].names[Len(listed[i].names)], ignore_patterns)
        /\ Len(PrintedChildren(listed[i].path)) >= 2

\* the frames of the active calls agree with what was printed: each loop
\* has printed exactly the entries before its index (and the directory it
\* is inside of)
StackMatchesOutput ==
    \A d \in 1..Len(stack) :
        stack[d].entered =>
            Len(PrintedChildren(stack[d].path))
                = stack[d].index + (IF d < Len(stack) THEN 1 ELSE 0)

\* the summary lines of the file whose entry line is out[i], joined by spaces
RECURSIVE SummaryFrom(_)
SummaryFrom(i) ==
    IF i < Len(out) /\ out[i + 1].kind = "cont"
    THEN out[i].body \o <<" ">> \o SummaryFrom(i + 1)
    ELSE out[i].body

\* C3: a failed read or a failed summarizer call lets no exception escape;
\* the file's summary is the bracketed diagnostic; the loop moves on exactly
\* one entry, so every other entry is printed as the listing dictates.
C3_FileFailureIsNotFatal ==
    /\ cause # "summarize"
    /\ \A i \in 1..Len(out) :
        (out[i].kind = "file" /\ out[i].outcome # "ok") =>
            LET t == SummaryFrom(i)
            IN t # <<>> /\ t[1] = "[" /\ t[Len(t)] = "]"
    /\ StackMatchesOutput
    /\ ChildrenFollowListing

\* a finished walk in which a file that could not be read and a file whose
\* summarizer call failed are each followed by a printed sibling
C3_Witness ==
    /\ pc = "done"
    /\ \E i, j \in 1..Len(out) :
        /\ i < j
        /\ out[i].kind = "file" /\ out[i].outcome = "read_error"
        /\ out[j].kind = "file" /\ out[j].outcome = "api_error"
        /\ \E k \in (j + 1)..Len(out) :
              IsEntry(out[k]) /\ Parent(out[k].path) = Parent(out[j].path)

\* C4 as stated: whenever a listing fails there is one diagnostic line for
\* it and nothing is raised.
C4_AnyListingFailureIsReported ==
    /\ pc # "raised"
    /\ Cardinality({i \in 1..Len(out) : out[i].kind = "denied"})
         = Cardinality({i \in 1..Len(listed) : listed[i].result # "ok"})

\* C4 amended: a listing that fails with PermissionError gives exactly one
\* diagnostic line, directly under the directory's own line, and raises
\* nothing; nothing below that directory is printed; the siblings of the
\* directory and of its ancestors are still printed, in order.
C4_PermissionErrorIsReported ==
    /\ \A i \in DeniedListings :
        /\ Cardinality({j \in 1..Len(out) :
                           out[j].kind = "denied" /\ out[j].path = listed[i].path}) = 1
        /\ \A j \in 1..Len(out) :
              ~(IsPrefixOf(listed[i].path, out[j].path) /\ out[j].path # listed[i].path)
    /\ Cardinality({j \in 1..Len(out) : out[j].kind = "denied"})
         = Cardinality(DeniedListings)
    /\ \A j \in 1..Len(out) :
        (out[j].kind = "denied" /\ out[j].path # <<>>) =>
            /\ j > 1
            /\ out[j - 1].kind = "dir"
            /\ out[j - 1].path = out[j].path
    /\ pc = "raised" => listed[Len(listed)].result = "error"
    /\ StackMatchesOutput
    /\ ChildrenFollowListing

\* a finished walk in which a directory two levels down could not be listed
\* and a sibling of it and a sibling of its parent were printed afterwards
C4_Witness ==
    /\ pc = "done"
    /\ \E j \in 1..Len(out) :
        /\ out[j].kind = "denied"
        /\ Len(out[j].path) = 2
        /\ \E k, m \in (j + 1)..Len(out) :
              /\ k < m
              /\ IsEntry(out[k]) /\ Parent(out[k].path) = Parent(out[j].path)
              /\ IsEntry(out[m]) /\ Parent(out[m].path) = <<>>

\* the paths of the file entry lines, in print order
RECURSIVE FilePaths(_, _)
FilePaths(i, skip) ==
    IF i > Len(out) THEN <<>>
    ELSE (IF out[i].kind = "file" /\ out[i].outcome \notin skip
          THEN <<out[i].path>> ELSE <<>>) \o FilePaths(i + 1, skip)

\* C8 as stated: one summarizer request per printed file, in print order,
\* also when the file cannot be read.
C8_OneRequestPerFile == requests = FilePaths(1, {})

\* C8 amended: one summarizer request per printed file that could be read,
\* in print order, none for a file whose read failed, none repeated after a
\* failed request, none for a directory or an excluded entry.
C8_OneRequestPerReadableFile == requests = FilePaths(1, {"read_error"})

\* a finished walk with a file of each outcome
C8_Witness ==
    /\ pc = "done"
    /\ \E i, j, k \in 1..Len(out) :
        /\ out[i].kind = "file" /\ out[i].outcome = "read_error"
        /\ out[j].kind = "file" /\ out[j].outcome = "api_error"
        /\ out[k].kind = "file" /\ out[k].outcome = "ok"
    /\ \E i \in 1..Len(out) : out[i].kind = "dir"

\* C9: the entry lines come in depth-first pre-order: a directory's line
\* before every line of its subtree, a subtree's lines before the line of
\* the directory's next sibling; a child's line only after its parent's; the
\* continuation lines of a file directly after its entry line.
C9_PreOrder ==
    /\ \A i, j \in 1..Len(out) :
        (i < j /\ IsEntry(out[i]) /\ IsEntry(out[j])) => PathLess(out[i].path, out[j].path)
    /\ \A j \in 1..Len(out) :
        Len(out[j].path) > 1 =>
            \E i \in 1..(j - 1) : out[i].kind = "dir" /\ out[i].path = Parent(out[j].path)
    /\ \A j \in 1..Len(out) :
        out[j].kind = "cont" =>
            /\ j > 1
            /\ out[j - 1].kind \in {"file", "cont"}
            /\ out[j - 1].path = out[j].path

\* a finished walk that printed a directory, an entry inside it, and then a
\* later sibling of the directory whose name sorts before the inner entry's
C9_Witness ==
    /\ pc = "done"
    /\ \E i, j, k \in 1..Len(out) :
        /\ i < j /\ j < k
        /\ out[i].kind = "dir"
        /\ IsEntry(out[j]) /\ Parent(out[j].path) = out[i].path
        /\ IsEntry(out[k]) /\ Parent(out[k].path) = Parent(out[i].path)
        /\ StrLess(out[k].name, out[j].name)

\* the listing of directory p
ListingOf(p) == listed[CHOOSE i \in 1..Len(listed) : listed[i].path = p]

\* the entry at path q is the last surviving entry of its level
IsLastSurvivor(q) ==
    LET surv == Survivors(ListingOf(Parent(q)).names)
    IN surv # <<>> /\ surv[Len(surv)] = q[Len(q)]

\* the prefix the claim describes for an entry at path p: one segment per
\* ancestor below the root, outermost first
RECURSIVE ExpectedPrefix(_, _)
ExpectedPrefix(p, i) ==
    IF i >= Len(p) THEN <<>>
    ELSE (IF IsLastSurvivor(SubSeq(p, 1, i))
          THEN <<" ", " ", " ", " ">> ELSE <<"|", " ", " ", " ">>)
         \o ExpectedPrefix(p, i + 1)

\* C10: the prefix of an entry printed at depth d is the concatenation,
\* outermost ancestor first, of four spaces for an ancestor that was the last
\* survivor of its level and bar plus three spaces otherwise; its length is
\* 4 * d and the line starts with it.
C10_PrefixComposition ==
    \A i \in 1..Len(out) :
        IsEntry(out[i]) =>
            /\ out[i].prefix = ExpectedPrefix(out[i].path, 1)
            /\ Len(out[i].prefix) = 4 * (Len(out[i].path) - 1)
            /\ IsPrefixOf(out[i].prefix, out[i].text)

\* an entry two levels down whose two ancestors contribute different segments
C10_Witness ==
    \E i \in 1..Len(out) :
        /\ IsEntry(out[i])
        /\ Len(out[i].path) = 3
        /\ ~IsLastSurvivor(SubSeq(out[i].path, 1, 1))
        /\ IsLastSurvivor(SubSeq(out[i].path, 1, 2))

\* the column (from 0) at which the summary text of a line starts
BodyColumn(r) == Len(r.text) - Len(r.body)

\* the entry line of the file a continuation line belongs to
EntryLineOf(i) ==
    out[CHOOSE j \in 1..i : out[j].kind = "file" /\ out[j].path = out[i].path]

\* C6 as stated: every continuation line starts in the column in which the
\* first summary line starts.
C6_ContinuationUnderSummary ==
    \A i \in 1..Len(out) :
        out[i].kind = "cont" => BodyColumn(out[i]) = BodyColumn(EntryLineOf(i))

\* C6 amended: the first summary line directly follows " - " after the file
\* name; every continuation line is indented by the prefix's width plus six
\* columns, that is two columns right of the first character of the file
\* name whatever the name's length, which is always left of the column of
\* the first summary line.
C6_ContinuationIndent ==
    \A i \in 1..Len(out) :
        /\ out[i].kind = "file" =>
              out[i].text = out[i].prefix \o out[i].branch \o out[i].name
                              \o <<" ", "-", " ">> \o out[i].body
        /\ out[i].kind = "cont" =>
            /\ BodyColumn(out[i]) = Len(out[i].prefix) + 6
            /\ BodyColumn(out[i]) = Len(out[i].prefix) + Len(out[i].branch) + 2
            /\ SubSeq(out[i].text, 1, Len(out[i].prefix)) = out[i].prefix
            /\ \A k \in (Len(out[i].prefix) + 1)..BodyColumn(out[i]) : out[i].text[k] = " "
            /\ SubSeq(out[i].text, BodyColumn(out[i]) + 1, Len(out[i].text)) = out[i].body
            /\ BodyColumn(out[i]) < BodyColumn(EntryLineOf(i))

\* a wrapped summary under a non-empty prefix, for a name of two characters
C6_Witness ==
    \E i \in 1..Len(out) :
        /\ out[i].kind = "cont"
        /\ out[i].prefix # <<>>
        /\ Len(out[i].name) = 2

(***************************************************************************)
(* load_ignore_patterns and the wrapping                                   *)
(***************************************************************************)
\* C5: when reading ignore.txt fails, at any point of the read, the
\* diagnostic is printed and the rule set is empty.
C5_ReadFailureGivesNoPatterns ==
    (pc = "loaded" /\ read_failed) =>
        /\ ignore_patterns = <<>>
        /\ out = <<[kind |-> "ignore_error"]>>

\* the words of a text: its maximal runs of non-whitespace, as index pairs
WordsOf(t) ==
    {<<i, Least({e \in i..Len(t) : e = Len(t) \/ IsSpace(t[e + 1])})>> :
        i \in {j \in 1..Len(t) : ~IsSpace(t[j]) /\ (j = 1 \/ IsSpace(t[j - 1]))}}

\* word w of text t stands whole on one of the lines
OnOneLine(t, w, lns) ==
    \E l \in 1..Len(lns) : \E k \in 0..(Len(lns[l]) - (w[2] - w[1] + 1)) :
        SubSeq(lns[l], k + 1, k + w[2] - w[1] + 1) = SubSeq(t, w[1], w[2])

NonSpace(t) == SelectSeq(t, LAMBDA c : ~IsSpace(c))

\* C7 as stated: no line is longer than 60 and every word of the summary,
\* also one longer than 60, stands whole on one line.
C7_NeverSplitsAWord ==
    pc = "wrapped" =>
        /\ \A l \in 1..Len(lines) : Len(lines[l]) <= WrapWidth
        /\ \A w \in WordsOf(summary) : OnOneLine(summary, w, lines)

\* C7 amended: no line is longer than 60 characters; a word of at most 60
\* characters without a hyphen stands whole on one line; a word longer than
\* 60 characters is broken across lines; no character other than whitespace
\* is lost or added.
C7_SplitsOnlyLongOrHyphenated ==
    pc = "wrapped" =>
        /\ \A l \in 1..Len(lines) : Len(lines[l]) <= WrapWidth
        /\ \A w \in WordsOf(summary) :
            /\ (w[2] - w[1] + 1 <= WrapWidth /\ \A i \in w[1]..w[2] : summary[i] # "-")
                  => OnOneLine(summary, w, lines)
            /\ w[2] - w[1] + 1 > WrapWidth => ~OnOneLine(summary, w, lines)
        /\ NonSpace(Concat(lines)) = NonSpace(summary)

\* a wrapped summary with a word longer than the width and a shorter one
C7_Witness ==
    /\ pc = "wrapped"
    /\ \E w, v \in WordsOf(summary) :
        /\ w[2] - w[1] + 1 > WrapWidth
        /\ v[2] - v[1] + 1 <= WrapWidth
    /\ Len(lines) >= 3

====
